---- MODULE Spec2Model ----
(***************************************************************************)
(* The marketplace listing flow of venta-de-garage-web: the application    *)
(* shell (App), the header's search handlers (Header), the product grid    *)
(* (ProductGrid) with its asynchronous loadProducts runs, the session      *)
(* storage sets, and the listing store the flow talks to.                  *)
(*                                                                         *)
(* JavaScript is single-threaded: a handler, the renders it causes and the *)
(* effects those renders run form one atomic action; an asynchronous       *)
(* loadProducts run is suspended exactly at its awaits, and every resume   *)
(* (a network response) is one action.                                     *)
(***************************************************************************)
EXTENDS Integers, Sequences, FiniteSets, TLC

\* ------------------------------------------------------------------ bounds
\* Listings held by the store (one more than a page, so a second page exists).
NProducts == 16
\* User events (handler invocations) in one behaviour.
MaxEvents == 2
\* loadProducts runs that may be suspended at the same time.
MaxLoads == 2
\* Largest page handed to the featured recalculation in SpecFeatured.
MaxPageLen == 8
\* Files the user may pick for a listing, and events on the publish form.
MaxImages == 2
MaxFormEvents == 5

\* ------------------------------------------------------- program constants
pageSize == 15
TopFeatured == 6
MaxRecent == 5
\* useState(null) of sellerIdFilter, and an absent seller_id of a request.
NullSeller == -1

Products == 1..NProducts
Slots == 1..MaxLoads

\* ------------------------------------------------------------ input values
NoError == "null"
ErrListing == "Error al obtener productos"
ErrSearchInc == "Error al incrementar busquedas"
ErrViewInc == "Error al incrementar vistas"
ErrNetwork == "Failed to fetch"

\* useState(null) of liveSuggestion
NoLive == "null"

TypeLocation == "ubicacion"
TypeSeller == "vendedor"
TypeNone == "null"

\* The calls of handleSearchSubmit(term, type, extra) the header can make:
\* a plain submission, a location suggestion, a seller suggestion with and
\* without a seller_id.
SubmitInputs ==
    { [term |-> "bici", type |-> TypeNone, seller_id |-> NullSeller],
      [term |-> "", type |-> TypeNone, seller_id |-> NullSeller],
      [term |-> "Cordoba", type |-> TypeLocation, seller_id |-> NullSeller],
      [term |-> "Ana", type |-> TypeSeller, seller_id |-> 1],
      [term |-> "Ana", type |-> TypeSeller, seller_id |-> NullSeller] }

HeaderCategories == {"", "Muebles"}
SidebarValues ==
    [category |-> "Muebles", condition |-> "Nuevo",
     location |-> "Salta", endsIn |-> "7+"]
SidebarKeys == {"category", "condition", "location", "endsIn"}
PriceKeys == {"min", "max"}
\* What the user may type in a price input; "1a" is refused by the handler.
PriceInputs == {"", "10", "1a"}

\* /^\d*$/.test(value) on the typed values
DigitsOnly(v) == v \in {"", "10"}
PriceNum(v) == IF v = "10" THEN 10 ELSE 0

Truthy(s) == s # ""
SellerSet(sid) == sid # NullSeller
\* !!sellerIdFilter: null and 0 are falsy
SellerTruthy(sid) == sid # NullSeller /\ sid # 0

Min(a, b) == IF a < b THEN a ELSE b

\* ------------------------------------------------------------------- state
VARIABLES
    \* App (useState hooks of the application shell)
    searchTerm, selectedCategory, locationFilter, sellerIdFilter,
    \* Header
    hSearchTerm, hSelectedCategory, recentSearches, lsRecentSearches,
    \* ProductGrid
    products, total, loading, error, filters, localPrice, topFeatured, page,
    \* sessionStorage
    viewedProducts, searchedProducts,
    \* the listing store: featured flags and search counters (the view
    \* counters are written by this flow and never read by it)
    storeFeatured, storeSearches,
    \* the suspended loadProducts runs, one record per slot
    loads,
    \* history: user events so far, increment calls issued per listing id,
    \* the most recently started run with its last listing response, and the
    \* header's last submission with how often it was repeated in a row
    nEvents, viewCalls, searchCalls, latest, lastSubmit,
    \* the featured recalculation on its own (SpecFeatured)
    fpage, fflags, ftodo,
    \* Header's autocomplete: the useState hooks, the suggestion requests
    \* awaiting their response, and (history) the queries sent so far
    suggestions, liveSuggestion, loadingSuggestions, showSuggestions,
    sgPending, sgSent,
    \* PublishModal: whether App shows it, formData.locality_id, the number
    \* of picked files, its loading and error hooks, the createProduct call
    \* awaiting its response, (history) the calls sent and the form events
    publishOpen, formLocality, images, pubLoading, pubError,
    createPending, createSent, nForm,
    \* LocationSelect inside the modal
    selectedProvince, selectedLocality

appVars == <<searchTerm, selectedCategory, locationFilter, sellerIdFilter>>
headerVars == <<hSearchTerm, hSelectedCategory, recentSearches, lsRecentSearches>>
gridVars == <<products, total, loading, error, filters, localPrice, topFeatured, page>>
sessionVars == <<viewedProducts, searchedProducts>>
storeVars == <<storeFeatured, storeSearches>>
histVars == <<nEvents, viewCalls, searchCalls, latest, lastSubmit>>
featVars == <<fpage, fflags, ftodo>>
suggVars == <<suggestions, liveSuggestion, loadingSuggestions,
              showSuggestions, sgPending, sgSent>>
pubVars == <<publishOpen, formLocality, images, pubLoading, pubError,
             createPending, createSent, nForm, selectedProvince,
             selectedLocality>>
\* What the listing flow's load steps and the grid's handlers never touch.
sideVars == <<featVars, suggVars, pubVars>>
\* What only the user's handlers change.
userVars ==
    <<appVars, headerVars, filters, localPrice, page, nEvents, lastSubmit>>
vars == <<appVars, headerVars, gridVars, sessionVars, storeVars, loads,
          histVars, featVars, suggVars, pubVars>>

\* ------------------------------------------------------- filters, requests
initialFilters(category) ==
    [category |-> category, condition |-> "", location |-> "",
     priceMin |-> "", priceMax |-> "", endsIn |-> ""]

ClearedFilters ==
    [category |-> "", condition |-> "", location |-> "",
     priceMin |-> "", priceMax |-> "", endsIn |-> ""]

hasActiveFilters(st, f, loc, sid) ==
    \/ Truthy(st)
    \/ Truthy(f.category)
    \/ Truthy(f.condition)
    \/ Truthy(f.location)
    \/ Truthy(f.priceMin)
    \/ Truthy(f.priceMax)
    \/ Truthy(f.endsIn)
    \/ Truthy(loc)
    \/ SellerTruthy(sid)

\* What a loadProducts run closes over: the props and state of its render.
Closure(st, loc, sid, f, pg) ==
    [searchTerm |-> st, locationFilter |-> loc, sellerIdFilter |-> sid,
     filters |-> f, page |-> pg,
     hasActive |-> hasActiveFilters(st, f, loc, sid)]

\* The argument of the first fetchProducts call, as fetchProducts sends it:
\* a parameter is on the URL only when it has a value.
PrimaryRequest(c) ==
    [search |-> IF Truthy(c.locationFilter) \/ SellerSet(c.sellerIdFilter)
                THEN "" ELSE c.searchTerm,
     category |-> c.filters.category,
     condition |-> c.filters.condition,
     location |-> IF Truthy(c.locationFilter) THEN c.locationFilter
                  ELSE c.filters.location,
     priceMin |-> c.filters.priceMin,
     priceMax |-> c.filters.priceMax,
     endsIn |-> c.filters.endsIn,
     seller_id |-> c.sellerIdFilter,
     featured_only |-> ~c.hasActive,
     page |-> c.page,
     pageSize |-> pageSize]

\* The argument of the fetchProducts call after the search increments.
RefetchRequest(c) ==
    [search |-> c.searchTerm,
     category |-> c.filters.category,
     condition |-> c.filters.condition,
     location |-> c.filters.location,
     priceMin |-> c.filters.priceMin,
     priceMax |-> c.filters.priceMax,
     endsIn |-> c.filters.endsIn,
     seller_id |-> NullSeller,
     featured_only |-> ~c.hasActive,
     page |-> c.page,
     pageSize |-> pageSize]

\* Some filter dimension of a request is on the URL.
DimensionActive(req) ==
    \/ req.search # ""
    \/ req.category # ""
    \/ req.condition # ""
    \/ req.location # ""
    \/ req.priceMin # ""
    \/ req.priceMax # ""
    \/ req.endsIn # ""
    \/ req.seller_id # NullSeller

\* ------------------------------------------------------- the listing store
\* The listings' fixed fields.
TitleMatches(p, term) == term \in {"bici", "mesa"}
ProductPlace(p) == IF p <= 2 THEN "Cordoba" ELSE "Salta"
ProductSeller(p) == IF p % 2 = 0 THEN 1 ELSE 2
ProductCategory(p) == IF p % 3 = 0 THEN "Muebles" ELSE "Otros"
ProductCondition(p) == IF p % 4 = 0 THEN "Nuevo" ELSE "Usado"
ProductPrice(p) == p
ProductEndsIn(p) == IF p >= 5 THEN "7+" ELSE "1"

Matches(p, req, featuredNow) ==
    /\ req.search = "" \/ TitleMatches(p, req.search)
    /\ req.category = "" \/ ProductCategory(p) = req.category
    /\ req.condition = "" \/ ProductCondition(p) = req.condition
    /\ req.location = "" \/ ProductPlace(p) = req.location
    /\ req.priceMin = "" \/ ProductPrice(p) >= PriceNum(req.priceMin)
    /\ req.priceMax = "" \/ ProductPrice(p) <= PriceNum(req.priceMax)
    /\ req.endsIn = "" \/ ProductEndsIn(p) = req.endsIn
    /\ req.seller_id = NullSeller \/ ProductSeller(p) = req.seller_id
    /\ req.featured_only => p \in featuredNow

AllIds == [i \in 1..NProducts |-> i]

\* query(filter) -> {items, total}: the matching listings in id order, cut
\* to the requested page; each item carries the store's current counters.
StoreQuery(req, featuredNow, searchesNow) ==
    LET matching == SelectSeq(AllIds, LAMBDA p : Matches(p, req, featuredNow))
        first == (req.page - 1) * req.pageSize + 1
        last == Min(req.page * req.pageSize, Len(matching))
        ids == SubSeq(matching, first, last)
    IN  [items |-> [i \in 1..Len(ids) |->
                      [id |-> ids[i], searches |-> searchesNow[ids[i]],
                       featured |-> ids[i] \in featuredNow]],
         total |-> Len(matching)]

ItemIds(items) == {items[i].id : i \in 1..Len(items)}

\* --------------------------------------------------- featured recalculation
\* [...items].sort((a, b) => b.searches - a.searches): stable, descending.
RECURSIVE InsertBySearches(_, _)
InsertBySearches(x, sorted) ==
    IF sorted = <<>> THEN <<x>>
    ELSE IF Head(sorted).searches >= x.searches
         THEN <<Head(sorted)>> \o InsertBySearches(x, Tail(sorted))
         ELSE <<x>> \o sorted

RECURSIVE SortBySearches(_)
SortBySearches(items) ==
    IF items = <<>> THEN <<>>
    ELSE InsertBySearches(items[Len(items)],
                          SortBySearches(SubSeq(items, 1, Len(items) - 1)))

Top6(items) == SubSeq(SortBySearches(items), 1, Min(TopFeatured, Len(items)))
Rest(items) == SubSeq(SortBySearches(items), TopFeatured + 1, Len(items))

Mutation(item, value) == [id |-> item.id, value |-> value]
MapMutations(seq, value) == [i \in 1..Len(seq) |-> Mutation(seq[i], value)]

\* A recalculation without its second loop: nothing is ever demoted.
FeaturedMutationsPromoteOnly(items) ==
    MapMutations(SelectSeq(Top6(items), LAMBDA x : ~x.featured), TRUE)

\* A recalculation that flags its top six whatever their flag is.
FeaturedMutationsPromoteAll(items) ==
    MapMutations(Top6(items), TRUE)
    \o MapMutations(SelectSeq(Rest(items), LAMBDA x : x.featured), FALSE)

\* The updateFeatured calls of one home-view run, in the order it makes them.
FeaturedMutations(items) ==
    MapMutations(SelectSeq(Top6(items), LAMBDA x : ~x.featured), TRUE)
    \o MapMutations(SelectSeq(Rest(items), LAMBDA x : x.featured), FALSE)

ApplyMutation(flags, m) ==
    IF m.value THEN flags \cup {m.id} ELSE flags \ {m.id}

\* ------------------------------------------------------- loadProducts runs
Idle ==
    [pc |-> "idle", searchTerm |-> "", locationFilter |-> "",
     sellerIdFilter |-> NullSeller, filters |-> ClearedFilters, page |-> 1,
     hasActive |-> FALSE, items |-> <<>>, todo |-> <<>>,
     already |-> {}, newIds |-> {}]

\* A run from its first line to its first await: the primary query is sent.
NewLoad(c) ==
    [pc |-> "primary", searchTerm |-> c.searchTerm,
     locationFilter |-> c.locationFilter, sellerIdFilter |-> c.sellerIdFilter,
     filters |-> c.filters, page |-> c.page, hasActive |-> c.hasActive,
     items |-> <<>>, todo |-> <<>>, already |-> {}, newIds |-> {}]

\* Lines 144-153: the view increments of the page, or the end of the run.
ViewStage(r) ==
    LET newViewIds == ItemIds(r.items) \ viewedProducts
    IN  IF newViewIds # {}
        THEN [r EXCEPT !.pc = "viewInc", !.already = viewedProducts,
                       !.newIds = newViewIds, !.todo = <<>>]
        ELSE Idle

\* Lines 121-142: the search increments, only with an active filter.
SearchStage(r) ==
    LET newIds == ItemIds(r.items) \ searchedProducts
    IN  IF r.hasActive /\ newIds # {}
        THEN [r EXCEPT !.pc = "searchInc", !.already = searchedProducts,
                       !.newIds = newIds, !.todo = <<>>]
        ELSE ViewStage(r)

\* A recalculation that does not look at isMainPage.
FeaturedStageAlways(r) ==
    IF FeaturedMutations(r.items) # <<>>
    THEN [r EXCEPT !.pc = "featured", !.todo = FeaturedMutations(r.items)]
    ELSE SearchStage(r)

\* Lines 99-119: on the main page the featured mutations come first.
FeaturedStage(r) ==
    IF ~r.hasActive /\ FeaturedMutations(r.items) # <<>>
    THEN [r EXCEPT !.pc = "featured", !.todo = FeaturedMutations(r.items)]
    ELSE SearchStage(r)

\* A catch without the finally block: the spinner stays.
CatchWithoutFinally(msg) == [error |-> msg, loading |-> loading]

\* catch (err) { setError(err.message) } finally { setLoading(false) }
CatchFinally(msg) == [error |-> msg, loading |-> FALSE]

Bump(calls, ids) ==
    [p \in Products |-> IF p \in ids THEN calls[p] + 1 ELSE calls[p]]

\* A run that moves on without ever passing through finally.
AdvanceNoFinally(l, next) ==
    /\ loads' = [loads EXCEPT ![l] = next]
    /\ loading' = loading
    /\ viewCalls' = IF next.pc = "viewInc" THEN Bump(viewCalls, next.newIds)
                    ELSE viewCalls
    /\ searchCalls' = IF next.pc = "searchInc"
                      THEN Bump(searchCalls, next.newIds)
                      ELSE searchCalls

\* A run moves on to `next`: the calls it makes on the way are issued, and a
\* run that ends passes through finally.
Advance(l, next) ==
    /\ loads' = [loads EXCEPT ![l] = next]
    /\ loading' = IF next.pc = "idle" THEN FALSE ELSE loading
    /\ viewCalls' = IF next.pc = "viewInc" THEN Bump(viewCalls, next.newIds)
                    ELSE viewCalls
    /\ searchCalls' = IF next.pc = "searchInc"
                      THEN Bump(searchCalls, next.newIds)
                      ELSE searchCalls

\* A run ends in catch.
Fail(l, msg) ==
    /\ loads' = [loads EXCEPT ![l] = Idle]
    /\ error' = CatchFinally(msg).error
    /\ loading' = CatchFinally(msg).loading
    /\ UNCHANGED <<viewCalls, searchCalls>>

NoteResponse(l, ok, items, tot) ==
    latest' = IF latest.slot = l
              THEN [latest EXCEPT !.state = IF ok THEN "ok" ELSE "failed",
                                  !.items = items, !.total = tot]
              ELSE latest

\* The primary query is answered with a page.
PrimaryOk(l) ==
    /\ loads[l].pc = "primary"
    /\ LET data == StoreQuery(PrimaryRequest(loads[l]), storeFeatured,
                              storeSearches)
           r == [loads[l] EXCEPT !.items = data.items]
       IN  /\ products' = data.items
           /\ total' = data.total
           /\ error' = NoError
           /\ topFeatured' = IF ~r.hasActive THEN Top6(data.items) ELSE <<>>
           /\ Advance(l, FeaturedStage(r))
           /\ NoteResponse(l, TRUE, data.items, data.total)
    /\ UNCHANGED <<userVars, sideVars, sessionVars, storeVars>>

\* The primary query fails (a response that is not ok, or no response).
PrimaryFail(l) ==
    /\ loads[l].pc = "primary"
    /\ Fail(l, ErrListing)
    /\ NoteResponse(l, FALSE, <<>>, 0)
    /\ UNCHANGED <<userVars, sideVars, products, total, topFeatured,
                   sessionVars, storeVars>>

\* await updateFeatured(...) returns: the store applied the mutation
\* (applied), or answered with an error status, which updateFeatured does
\* not look at.
FeaturedReturn(l, applied) ==
    /\ loads[l].pc = "featured"
    /\ LET m == Head(loads[l].todo)
           r == [loads[l] EXCEPT !.todo = Tail(loads[l].todo)]
       IN  /\ storeFeatured' = IF applied THEN ApplyMutation(storeFeatured, m)
                               ELSE storeFeatured
           /\ Advance(l, IF r.todo # <<>> THEN r ELSE SearchStage(r))
    /\ UNCHANGED <<userVars, sideVars, products, total, error, topFeatured,
                   sessionVars, storeSearches, latest>>

\* await updateFeatured(...) throws: the request got no response.
FeaturedThrow(l) ==
    /\ loads[l].pc = "featured"
    /\ Fail(l, ErrNetwork)
    /\ UNCHANGED <<userVars, sideVars, products, total, topFeatured,
                   sessionVars, storeVars, latest>>

\* The ways a batch of increment calls can fail: one call, or all of them.
FailingSets(ids) ==
    IF ids = {} THEN {}
    ELSE {{CHOOSE p \in ids : \A q \in ids : p <= q}, ids}

\* await Promise.all(newIds.map(incrementProductSearch)) returns: every call
\* was answered ok. The ids are stored and the page is fetched again.
SearchIncReturn(l) ==
    /\ loads[l].pc = "searchInc"
    /\ storeSearches' = Bump(storeSearches, loads[l].newIds)
    /\ searchedProducts' = loads[l].already \cup loads[l].newIds
    /\ Advance(l, [loads[l] EXCEPT !.pc = "refetch", !.already = {},
                                   !.newIds = {}])
    /\ UNCHANGED <<userVars, sideVars, products, total, error, topFeatured,
                   viewedProducts, storeFeatured, latest>>

\* Promise.all rejects: the calls in `failed` were not answered ok, the
\* others were counted by the store. Nothing is stored in the session.
SearchIncThrow(l, failed) ==
    /\ loads[l].pc = "searchInc"
    /\ storeSearches' = Bump(storeSearches, loads[l].newIds \ failed)
    /\ Fail(l, ErrSearchInc)
    /\ UNCHANGED <<userVars, sideVars, products, total, topFeatured,
                   sessionVars, storeFeatured, latest>>

\* The second fetchProducts call is answered with a page.
RefetchOk(l) ==
    /\ loads[l].pc = "refetch"
    /\ LET refreshed == StoreQuery(RefetchRequest(loads[l]), storeFeatured,
                                   storeSearches)
       IN  /\ products' = refreshed.items
           /\ Advance(l, ViewStage(loads[l]))
           /\ NoteResponse(l, TRUE, refreshed.items, latest.total)
    /\ UNCHANGED <<userVars, sideVars, total, error, topFeatured,
                   sessionVars, storeVars>>

\* The second fetchProducts call fails.
RefetchFail(l) ==
    /\ loads[l].pc = "refetch"
    /\ Fail(l, ErrListing)
    /\ UNCHANGED <<userVars, sideVars, products, total, topFeatured,
                   sessionVars, storeVars, latest>>

\* await Promise.all(newViewIds.map(incrementProductView)) returns: every
\* call was answered ok, and the ids are stored.
ViewIncReturn(l) ==
    /\ loads[l].pc = "viewInc"
    /\ viewedProducts' = loads[l].already \cup loads[l].newIds
    /\ Advance(l, Idle)
    /\ UNCHANGED <<userVars, sideVars, products, total, error, topFeatured,
                   searchedProducts, storeVars, latest>>

\* Promise.all of the view increments rejects: some call was not answered ok.
ViewIncThrow(l) ==
    /\ loads[l].pc = "viewInc"
    /\ Fail(l, ErrViewInc)
    /\ UNCHANGED <<userVars, sideVars, products, total, topFeatured,
                   sessionVars, storeVars, latest>>

\* ------------------------------------------------- renders and their effects
FreeSlots(ld) == {l \in Slots : ld[l].pc = "idle"}
LowestFree(ld) == CHOOSE l \in FreeSlots(ld) : \A m \in FreeSlots(ld) : l <= m

\* loadProducts() is called once per closure, in order; each call runs to its
\* first await (setLoading(true), the primary query sent).
RECURSIVE Place(_, _)
Place(ld, closures) ==
    IF closures = <<>> THEN ld
    ELSE Place([ld EXCEPT ![LowestFree(ld)] = NewLoad(Head(closures))],
               Tail(closures))

RECURSIVE LastPlaced(_, _)
LastPlaced(ld, closures) ==
    IF Len(closures) = 1 THEN LowestFree(ld)
    ELSE LastPlaced([ld EXCEPT ![LowestFree(ld)] = NewLoad(Head(closures))],
                    Tail(closures))

StartLoads(closures) ==
    /\ Len(closures) <= Cardinality(FreeSlots(loads))
    /\ loads' = Place(loads, closures)
    /\ loading' = IF closures # <<>> THEN TRUE ELSE loading
    /\ latest' = IF closures # <<>>
                 THEN [slot |-> LastPlaced(loads, closures),
                       state |-> "pending",
                       req |-> PrimaryRequest(closures[Len(closures)]),
                       items |-> <<>>, total |-> 0]
                 ELSE latest

\* useEffect(..., [filters.priceMin, filters.priceMax]): the staged price
\* follows the filter's price when that changes.
SyncLocalPrice(old, new, lp) ==
    IF new.priceMin # old.priceMin \/ new.priceMax # old.priceMax
    THEN [min |-> new.priceMin, max |-> new.priceMax]
    ELSE lp

\* The filters after the effects of a render whose props changed: the
\* category effect (lines 53-55) merges the category, the searchTerm effect
\* (lines 63-66) replaces the filters by initialFilters.
FiltersAfterEffects(termChanged, catChanged, cat, f) ==
    IF termChanged THEN initialFilters(cat)
    ELSE IF catChanged THEN [f EXCEPT !.category = cat]
    ELSE f

\* The loadProducts runs started by App passing new props to ProductGrid.
\* First render: the load effect runs when searchTerm, hasActiveFilters,
\* locationFilter or sellerIdFilter changed, with the filters and page of
\* that render. The category and searchTerm effects set state, the grid
\* renders again with a new filters object, and the load effect runs again.
LoadsOfPropsChange(st, cat, loc, sid) ==
    LET termChanged == st # searchTerm
        catChanged == cat # selectedCategory
        first == \/ termChanged
                 \/ loc # locationFilter
                 \/ sid # sellerIdFilter
                 \/ hasActiveFilters(st, filters, loc, sid)
                    # hasActiveFilters(searchTerm, filters, locationFilter,
                                       sellerIdFilter)
        f2 == FiltersAfterEffects(termChanged, catChanged, cat, filters)
        p2 == IF termChanged THEN 1 ELSE page
    IN  (IF first THEN <<Closure(st, loc, sid, filters, page)>> ELSE <<>>)
        \o (IF termChanged \/ catChanged
            THEN <<Closure(st, loc, sid, f2, p2)>> ELSE <<>>)

\* App's state becomes (st, cat, loc, sid); ProductGrid renders with them.
PropsChange(st, cat, loc, sid) ==
    LET termChanged == st # searchTerm
        catChanged == cat # selectedCategory
        f2 == FiltersAfterEffects(termChanged, catChanged, cat, filters)
    IN  /\ searchTerm' = st
        /\ selectedCategory' = cat
        /\ locationFilter' = loc
        /\ sellerIdFilter' = sid
        /\ filters' = f2
        /\ page' = IF termChanged THEN 1 ELSE page
        /\ localPrice' = SyncLocalPrice(filters, f2, localPrice)
        /\ StartLoads(LoadsOfPropsChange(st, cat, loc, sid))
        /\ UNCHANGED <<products, total, error, topFeatured>>

\* ProductGrid's own filters or page change: one render, one run.
GridChange(f2, p2) ==
    /\ filters' = f2
    /\ page' = p2
    /\ localPrice' = SyncLocalPrice(filters, f2, localPrice)
    /\ StartLoads(<<Closure(searchTerm, locationFilter, sellerIdFilter,
                            f2, p2)>>)
    /\ UNCHANGED <<products, total, error, topFeatured>>

\* ------------------------------------------------------------ App, Header
\* A handleSearch that takes a selected location for the text to search.
handleSearchLocationAsTerm(term, category, location, sellerId) ==
    [searchTerm |-> IF Truthy(location) THEN location ELSE term,
     selectedCategory |-> category,
     locationFilter |-> location,
     sellerIdFilter |-> sellerId]

\* App.handleSearch(term, category, location, sellerId): the new App state.
handleSearch(term, category, location, sellerId) ==
    [searchTerm |-> IF Truthy(location) \/ SellerSet(sellerId) THEN ""
                    ELSE term,
     selectedCategory |-> category,
     locationFilter |-> location,
     sellerIdFilter |-> sellerId]

\* A handleSearchSubmit whose type tests never match: every submission is
\* passed on as free text.
onSearchArgsUntyped(sub, category) ==
    [term |-> sub.term, category |-> category, location |-> "",
     sellerId |-> NullSeller]

\* The onSearch call of Header.handleSearchSubmit(term, type, extra).
onSearchArgs(sub, category) ==
    IF sub.type = TypeLocation
    THEN [term |-> "", category |-> category, location |-> sub.term,
          sellerId |-> NullSeller]
    ELSE IF sub.type = TypeSeller
    THEN [term |-> "", category |-> category, location |-> "",
          sellerId |-> sub.seller_id]
    ELSE [term |-> sub.term, category |-> category, location |-> "",
          sellerId |-> NullSeller]

\* A list that is never cut to its first five entries.
newRecentSearchesUncut(term, recent) ==
    <<term>> \o SelectSeq(recent, LAMBDA s : s # term)

\* [term, ...recentSearches.filter(s => s !== term)].slice(0, 5)
newRecentSearches(term, recent) ==
    LET all == <<term>> \o SelectSeq(recent, LAMBDA s : s # term)
    IN  SubSeq(all, 1, Min(MaxRecent, Len(all)))

NoSubmit ==
    [sub |-> [term |-> "", type |-> "none", seller_id |-> NullSeller],
     times |-> 0]

Event == nEvents < MaxEvents /\ nEvents' = nEvents + 1

CallOnSearch(a) ==
    LET app == handleSearch(a.term, a.category, a.location, a.sellerId)
    IN  PropsChange(app.searchTerm, app.selectedCategory, app.locationFilter,
                    app.sellerIdFilter)

HandleSearchSubmit(sub) ==
    /\ Event
    /\ recentSearches' = newRecentSearches(sub.term, recentSearches)
    /\ lsRecentSearches' = newRecentSearches(sub.term, recentSearches)
    /\ hSearchTerm' = sub.term
    /\ lastSubmit' = [sub |-> sub,
                      times |-> IF lastSubmit.sub = sub THEN 2 ELSE 1]
    /\ showSuggestions' = FALSE
    /\ CallOnSearch(onSearchArgs(sub, hSelectedCategory))
    /\ UNCHANGED <<hSelectedCategory, sessionVars, storeVars, viewCalls,
                   searchCalls, featVars, pubVars, suggestions,
                   liveSuggestion, loadingSuggestions, sgPending, sgSent>>

HandleCategoryChange(category) ==
    /\ Event
    /\ category # hSelectedCategory
    /\ hSelectedCategory' = category
    /\ lastSubmit' = NoSubmit
    /\ CallOnSearch([term |-> hSearchTerm, category |-> category,
                     location |-> "", sellerId |-> NullSeller])
    /\ UNCHANGED <<hSearchTerm, recentSearches, lsRecentSearches, sessionVars,
                   storeVars, viewCalls, searchCalls, sideVars>>

\* ------------------------------------------------- ProductGrid's handlers
\* The sidebar is rendered only past the loading and error returns, in the
\* hasActiveFilters branch (lines 190-206).
SidebarShown ==
    /\ ~loading
    /\ error = NoError
    /\ hasActiveFilters(searchTerm, filters, locationFilter, sellerIdFilter)

\* Math.max(1, Math.ceil(total / pageSize))
totalPages == IF total <= pageSize THEN 1 ELSE (total + pageSize - 1) \div pageSize

PaginationShown == SidebarShown /\ Len(products) # 0 /\ totalPages > 1

gridFrame ==
    <<appVars, headerVars, sessionVars, storeVars, viewCalls, searchCalls,
      lastSubmit, sideVars>>

\* A radio of the sidebar is chosen: handleFilterChange(key, value).
HandleFilterChange(key) ==
    /\ Event
    /\ SidebarShown
    /\ filters[key] # SidebarValues[key]
    /\ GridChange([filters EXCEPT ![key] = SidebarValues[key]], page)
    /\ UNCHANGED gridFrame

\* Typing in a price input: handleLocalPriceChange(key, value).
HandleLocalPriceChange(key, value) ==
    /\ Event
    /\ SidebarShown
    /\ value # localPrice[key]
    /\ localPrice' = IF DigitsOnly(value) THEN [localPrice EXCEPT ![key] = value]
                     ELSE localPrice
    /\ UNCHANGED <<products, total, loading, error, filters, topFeatured,
                   page, loads, latest>>
    /\ UNCHANGED gridFrame

\* An "Aplicar" that commits the staged min only.
HandleApplyPriceMinOnly ==
    /\ Event
    /\ SidebarShown
    /\ GridChange([filters EXCEPT !.priceMin = localPrice.min], page)
    /\ UNCHANGED gridFrame

\* "Aplicar": handleApplyPrice commits the staged prices.
HandleApplyPrice ==
    /\ Event
    /\ SidebarShown
    /\ GridChange([filters EXCEPT !.priceMin = localPrice.min,
                                  !.priceMax = localPrice.max], page)
    /\ UNCHANGED gridFrame

\* "Limpiar filtros" (line 284).
ClearFilters ==
    /\ Event
    /\ SidebarShown
    /\ GridChange(ClearedFilters, page)
    /\ UNCHANGED gridFrame

\* "Anterior" (line 368) and "Siguiente" (line 377).
PreviousPage ==
    /\ Event
    /\ PaginationShown
    /\ page # 1
    /\ GridChange(filters, page - 1)
    /\ UNCHANGED gridFrame

NextPage ==
    /\ Event
    /\ PaginationShown
    /\ page < totalPages
    /\ GridChange(filters, page + 1)
    /\ UNCHANGED gridFrame

\* ------------------------------------------------------------------- Spec
\* No place chosen: the '' of formData.locality_id and of LocationSelect.
NoPlace == 0

\* PublishModal before it was ever opened.
PublishIdle ==
    /\ publishOpen = FALSE /\ formLocality = NoPlace /\ images = 0
    /\ pubLoading = FALSE /\ pubError = NoError
    /\ createPending = <<>> /\ createSent = {} /\ nForm = 0
    /\ selectedProvince = NoPlace /\ selectedLocality = NoPlace

\* Header's autocomplete before anything was typed (part_002 105-115).
AutocompleteIdle ==
    /\ suggestions = <<>> /\ liveSuggestion = NoLive
    /\ loadingSuggestions = FALSE /\ showSuggestions = FALSE
    /\ sgPending = <<>> /\ sgSent = {}

\* The store's featured set when the session starts: one listing more than
\* the recalculation keeps.
InitiallyFeatured == 1..(TopFeatured + 1)

HomeClosure == Closure("", "", NullSeller, initialFilters(""), 1)

\* The state after the first commit of the page: ProductGrid's mount ran the
\* load effect, the category and searchTerm effects replaced the filters
\* object, and the load effect ran a second time.
MountedPage ==
    /\ searchTerm = "" /\ selectedCategory = ""
    /\ locationFilter = "" /\ sellerIdFilter = NullSeller
    /\ hSearchTerm = "" /\ hSelectedCategory = ""
    /\ recentSearches = <<>> /\ lsRecentSearches = <<>>
    /\ products = <<>> /\ total = 0 /\ loading = TRUE /\ error = NoError
    /\ filters = initialFilters("")
    /\ localPrice = [min |-> "", max |-> ""]
    /\ topFeatured = <<>> /\ page = 1
    /\ viewedProducts = {} /\ searchedProducts = {}
    /\ storeFeatured = InitiallyFeatured
    /\ storeSearches = [p \in Products |-> 0]
    /\ loads = [l \in Slots |-> IF l <= 2 THEN NewLoad(HomeClosure) ELSE Idle]
    /\ nEvents = 0
    /\ viewCalls = [p \in Products |-> 0]
    /\ searchCalls = [p \in Products |-> 0]
    /\ latest = [slot |-> 2, state |-> "pending",
                 req |-> PrimaryRequest(HomeClosure), items |-> <<>>,
                 total |-> 0]
    /\ lastSubmit = NoSubmit
    /\ AutocompleteIdle
    /\ PublishIdle

Init == MountedPage /\ fpage = <<>> /\ fflags = {} /\ ftodo = <<>>

Next ==
    \/ \E sub \in SubmitInputs : HandleSearchSubmit(sub)
    \/ \E c \in HeaderCategories : HandleCategoryChange(c)
    \/ \E k \in SidebarKeys : HandleFilterChange(k)
    \/ \E k \in PriceKeys, v \in PriceInputs : HandleLocalPriceChange(k, v)
    \/ HandleApplyPrice
    \/ ClearFilters
    \/ NextPage
    \/ \E l \in Slots : PrimaryOk(l)
    \/ \E l \in Slots : PrimaryFail(l)
    \/ \E l \in Slots, applied \in BOOLEAN : FeaturedReturn(l, applied)
    \/ \E l \in Slots : FeaturedThrow(l)
    \/ \E l \in Slots : SearchIncReturn(l)
    \/ \E l \in Slots : \E failed \in FailingSets(loads[l].newIds) :
          SearchIncThrow(l, failed)
    \/ \E l \in Slots : RefetchOk(l)
    \/ \E l \in Slots : RefetchFail(l)
    \/ \E l \in Slots : ViewIncReturn(l)
    \/ \E l \in Slots : ViewIncThrow(l)

Spec == Init /\ [][Next]_vars

\* ---------------------------------------------------------------- SpecLive
\* Every network call a run awaits is answered in the end, with a result
\* or with a failure: a suspended run is resumed.
LoadStep(l) ==
    \/ PrimaryFail(l)
    \/ FeaturedThrow(l)
    \/ \E failed \in FailingSets(loads[l].newIds) : SearchIncThrow(l, failed)
    \/ RefetchFail(l)
    \/ ViewIncThrow(l)
    \/ PrimaryOk(l)
    \/ \E applied \in BOOLEAN : FeaturedReturn(l, applied)
    \/ SearchIncReturn(l)
    \/ RefetchOk(l)
    \/ ViewIncReturn(l)

SpecLive == Init /\ [][Next]_vars /\ \A l \in Slots : WF_vars(LoadStep(l))

\* -------------------------------------------------------------- SpecSearch
\* A session in which the user has searched for "mesa": the page was
\* mounted, its home-view runs recalculated the featured flags and counted
\* the views, the term was submitted, and the two runs of the search have
\* come to their end, the first before the second was answered.
SearchedClosure == Closure("mesa", "", NullSeller, initialFilters(""), 1)

SearchedSubmit == [term |-> "mesa", type |-> TypeNone, seller_id |-> NullSeller]

SearchedWith(recent, staged) ==
    LET home == StoreQuery(PrimaryRequest(HomeClosure), InitiallyFeatured,
                           [p \in Products |-> 0]).items
        kept == {Top6(home)[i].id : i \in 1..Len(Top6(home))}
        req == PrimaryRequest(SearchedClosure)
        seen == ItemIds(StoreQuery(req, kept, [p \in Products |-> 0]).items)
        counted == [p \in Products |-> IF p \in seen THEN 1 ELSE 0]
        data == StoreQuery(req, kept, counted)
    IN  /\ searchTerm = "mesa" /\ selectedCategory = ""
        /\ locationFilter = "" /\ sellerIdFilter = NullSeller
        /\ hSearchTerm = "mesa" /\ hSelectedCategory = ""
        /\ recentSearches = recent /\ lsRecentSearches = recent
        /\ products = data.items /\ total = data.total
        /\ loading = FALSE /\ error = NoError
        /\ filters = initialFilters("")
        /\ localPrice = staged
        /\ topFeatured = <<>> /\ page = 1
        /\ viewedProducts = ItemIds(home) \cup seen
        /\ searchedProducts = seen
        /\ storeFeatured = kept
        /\ storeSearches = counted
        /\ loads = [l \in Slots |-> Idle]
        /\ viewCalls = [p \in Products |->
                          IF p \in ItemIds(home) \cup seen THEN 1 ELSE 0]
        /\ searchCalls = counted
        /\ latest = [slot |-> 2, state |-> "ok", req |-> req,
                     items |-> data.items, total |-> data.total]
        /\ lastSubmit = [sub |-> SearchedSubmit, times |-> 1]
        /\ AutocompleteIdle
        /\ PublishIdle

NothingStaged == [min |-> "", max |-> ""]

SearchedState == SearchedWith(<<"mesa">>, NothingStaged)

\* The price inputs of the sidebar as the user may have left them.
StagedPrices == {NothingStaged, [min |-> "10", max |-> ""]}

\* nEvents counts the user's events from this state on.
InitSearch ==
    /\ \E staged \in StagedPrices : SearchedWith(<<"mesa">>, staged)
    /\ nEvents = 0
    /\ fpage = <<>> /\ fflags = {} /\ ftodo = <<>>

\* With the featured flags settled no home-view run has a mutation to make.
NextSearch ==
    \/ \E sub \in SubmitInputs : HandleSearchSubmit(sub)
    \/ \E c \in HeaderCategories : HandleCategoryChange(c)
    \/ \E k \in SidebarKeys : HandleFilterChange(k)
    \/ \E k \in PriceKeys, v \in PriceInputs : HandleLocalPriceChange(k, v)
    \/ HandleApplyPrice
    \/ ClearFilters
    \/ NextPage
    \/ PreviousPage
    \/ \E l \in Slots : PrimaryOk(l)
    \/ \E l \in Slots : PrimaryFail(l)
    \/ \E l \in Slots : SearchIncReturn(l)
    \/ \E l \in Slots : \E failed \in FailingSets(loads[l].newIds) :
          SearchIncThrow(l, failed)
    \/ \E l \in Slots : RefetchOk(l)
    \/ \E l \in Slots : RefetchFail(l)
    \/ \E l \in Slots : ViewIncReturn(l)
    \/ \E l \in Slots : ViewIncThrow(l)

SpecSearch == InitSearch /\ [][NextSearch]_vars

\* -------------------------------------------------------------- SpecRecent
\* The recent-searches list over submissions, from what an earlier session
\* left in localStorage: the session read the list on mount (part_002
\* 120-125) and has searched for "mesa".
RecentStored ==
    { <<>>, <<"silla">>, <<"silla", "sofa", "cama", "radio">>,
      <<"silla", "sofa", "cama", "radio", "libro">>,
      <<"libro", "radio", "mesa", "sofa", "silla">> }

PlainSubmit(term) == [term |-> term, type |-> TypeNone, seller_id |-> NullSeller]

RecentInputs ==
    {PlainSubmit(t) : t \in {"silla", "radio", "libro", "lampara", "mesa"}}

InitRecent ==
    /\ \E stored \in RecentStored :
          SearchedWith(newRecentSearches("mesa", stored), NothingStaged)
    /\ nEvents = 0
    /\ fpage = <<>> /\ fflags = {} /\ ftodo = <<>>

\* The searches of RecentInputs find nothing new to count, so their runs
\* end with the primary response.
NextRecent ==
    \/ \E sub \in RecentInputs : HandleSearchSubmit(sub)
    \/ \E l \in Slots : PrimaryOk(l)
    \/ \E l \in Slots : PrimaryFail(l)

SpecRecent == InitRecent /\ [][NextRecent]_vars

\* ------------------------------------------------------------- SpecSuggest
\* Header's autocomplete: typing in the search box, the suggestion requests
\* and their responses, and what the panel shows.

\* What the user may have in the search box after a keystroke.
TypedValues == {"", "b", "  ", "bi", "bici", "Bici"}

\* String.prototype.toLowerCase on the strings of the model.
Lower(s) ==
    CASE s = "Bici" -> "bici"
      [] s = "Cordoba" -> "cordoba"
      [] OTHER -> s

Suggestion(text, type) == [text |-> text, type |-> type]

\* The bodies the suggestion service may answer with:
\* { suggestions: [...], suggestion: string | null }.
ServiceResponses ==
    [suggestions : {<<>>, <<Suggestion("bici", "categoria")>>,
                    <<Suggestion("Cordoba", TypeLocation)>>},
     suggestion : {NoLive, "bici"}]

\* What a keystroke, a focus change or a suggestion response leaves alone.
headerFrame ==
    <<appVars, gridVars, sessionVars, storeVars, loads, histVars, featVars,
      pubVars, hSelectedCategory, recentSearches, lsRecentSearches>>

\* fetchSuggestions(query) up to its await.
fetchSuggestions(query) ==
    IF Len(query) < 2
    THEN /\ suggestions' = <<>>
         /\ liveSuggestion' = NoLive
         /\ loadingSuggestions' = FALSE
         /\ UNCHANGED <<sgPending, sgSent>>
    ELSE /\ loadingSuggestions' = TRUE
         /\ sgPending' = Append(sgPending, [query |-> query,
                                            category |-> hSelectedCategory])
         /\ sgSent' = sgSent \cup {query}
         /\ UNCHANGED <<suggestions, liveSuggestion>>

\* onChange of the search box: handleSearchChange(event).
HandleSearchChange(value) ==
    /\ nEvents < MaxEvents
    /\ value # hSearchTerm
    /\ hSearchTerm' = value
    /\ showSuggestions' = TRUE
    /\ fetchSuggestions(value)
    /\ nEvents' = nEvents + 1
    /\ UNCHANGED <<appVars, gridVars, sessionVars, storeVars, loads,
                   viewCalls, searchCalls, latest, lastSubmit, featVars,
                   pubVars, hSelectedCategory, recentSearches,
                   lsRecentSearches>>

Without(seq, i) == SubSeq(seq, 1, i - 1) \o SubSeq(seq, i + 1, Len(seq))

\* The i-th outstanding suggestion request is answered with a body.
SuggestionsOk(i, resp) ==
    /\ i \in 1..Len(sgPending)
    /\ suggestions' = resp.suggestions
    /\ liveSuggestion' = resp.suggestion
    /\ loadingSuggestions' = FALSE
    /\ sgPending' = Without(sgPending, i)
    /\ UNCHANGED <<headerFrame, hSearchTerm, showSuggestions, sgSent>>

\* The i-th outstanding suggestion request fails: catch logs, finally
\* clears the loading flag.
SuggestionsFail(i) ==
    /\ i \in 1..Len(sgPending)
    /\ loadingSuggestions' = FALSE
    /\ sgPending' = Without(sgPending, i)
    /\ UNCHANGED <<headerFrame, hSearchTerm, showSuggestions, sgSent,
                   suggestions, liveSuggestion>>

\* onFocus of the search box, and a click outside it.
FocusSearch ==
    /\ ~showSuggestions
    /\ showSuggestions' = TRUE
    /\ UNCHANGED <<headerFrame, hSearchTerm, suggestions, liveSuggestion,
                   loadingSuggestions, sgPending, sgSent>>

ClickAway ==
    /\ showSuggestions
    /\ showSuggestions' = FALSE
    /\ UNCHANGED <<headerFrame, hSearchTerm, suggestions, liveSuggestion,
                   loadingSuggestions, sgPending, sgSent>>

\* The panel (part_002 249), its "did you mean" row (275) and its
\* suggestion rows (290).
PanelShown ==
    showSuggestions /\ (Len(hSearchTerm) > 0 \/ Len(recentSearches) > 0)

DidYouMeanShown ==
    /\ PanelShown
    /\ liveSuggestion # NoLive
    /\ liveSuggestion # hSearchTerm
    /\ ~\E i \in 1..Len(suggestions) :
          Lower(suggestions[i].text) = Lower(liveSuggestion)

SuggestionsListed == PanelShown /\ Len(suggestions) > 0

NextSuggest ==
    \/ \E v \in TypedValues : HandleSearchChange(v)
    \/ \E i \in 1..MaxEvents, resp \in ServiceResponses : SuggestionsOk(i, resp)
    \/ \E i \in 1..MaxEvents : SuggestionsFail(i)
    \/ FocusSearch
    \/ ClickAway

SpecSuggest == Init /\ [][NextSuggest]_vars

\* ------------------------------------------------------------- SpecPublish
\* The publish form on top of a page showing the results of one search.

\* fetchLocations(): two provinces, the first with two localities.
Provinces == {1, 2}
Localities == {11, 12, 21}
ProvinceOf(loc) == loc \div 10

ErrNoImage == "Debes seleccionar al menos una imagen."
ErrCreate == "Error al crear producto"

FormEvent ==
    /\ nForm < MaxFormEvents
    /\ nForm' = nForm + 1

\* What the form's handlers leave alone.
formFrame ==
    <<appVars, headerVars, gridVars, sessionVars, storeVars, loads, histVars,
      featVars, suggVars>>

\* handlePublishClick; the modal mounts LocationSelect, whose effect takes
\* the locality the form holds and that locality's province.
OpenPublish ==
    /\ ~publishOpen
    /\ FormEvent
    /\ publishOpen' = TRUE
    /\ selectedLocality' = formLocality
    /\ selectedProvince' =
          IF formLocality # NoPlace THEN ProvinceOf(formLocality) ELSE NoPlace
    /\ UNCHANGED <<formLocality, images, pubLoading, pubError, createPending,
                   createSent, formFrame>>

\* The modal's onClose; LocationSelect unmounts with it.
ClosePublish ==
    /\ publishOpen
    /\ FormEvent
    /\ publishOpen' = FALSE
    /\ selectedProvince' = NoPlace /\ selectedLocality' = NoPlace
    /\ UNCHANGED <<formLocality, images, pubLoading, pubError, createPending,
                   createSent, formFrame>>

handleImageChange(n) ==
    /\ publishOpen
    /\ n # images
    /\ FormEvent
    /\ images' = n
    /\ UNCHANGED <<publishOpen, formLocality, pubLoading, pubError,
                   createPending, createSent, selectedProvince,
                   selectedLocality, formFrame>>

\* LocationSelect: the province select does not call onChange.
handleProvinceChange(provinceId) ==
    /\ publishOpen
    /\ provinceId # selectedProvince
    /\ FormEvent
    /\ selectedProvince' = provinceId
    /\ selectedLocality' = NoPlace
    /\ UNCHANGED <<publishOpen, formLocality, images, pubLoading, pubError,
                   createPending, createSent, formFrame>>

\* LocationSelect: the locality select offers the selected province's
\* localities and hands the choice to PublishModal's handleLocationChange.
handleLocalityChange(localityId) ==
    /\ publishOpen
    /\ selectedProvince # NoPlace
    /\ ProvinceOf(localityId) = selectedProvince
    /\ localityId # selectedLocality
    /\ FormEvent
    /\ selectedLocality' = localityId
    /\ formLocality' = localityId
    /\ UNCHANGED <<publishOpen, images, pubLoading, pubError, createPending,
                   createSent, selectedProvince, formFrame>>

\* handleSubmit without its images.length check.
handleSubmitUnchecked ==
    /\ publishOpen /\ ~pubLoading
    /\ FormEvent
    /\ pubLoading' = TRUE /\ pubError' = NoError
    /\ createPending' = <<[images |-> images, locality |-> formLocality]>>
    /\ createSent' =
          createSent \cup {[images |-> images, locality |-> formLocality]}
    /\ UNCHANGED <<publishOpen, formLocality, images, selectedProvince,
                   selectedLocality, formFrame>>

\* handleSubmit up to its await; the submit button is disabled while loading.
handleSubmit ==
    /\ publishOpen /\ ~pubLoading
    /\ FormEvent
    /\ IF images = 0
       THEN /\ pubError' = ErrNoImage
            /\ pubLoading' = FALSE
            /\ UNCHANGED <<createPending, createSent>>
       ELSE /\ pubLoading' = TRUE /\ pubError' = NoError
            /\ createPending' =
                  <<[images |-> images, locality |-> formLocality]>>
            /\ createSent' =
                  createSent
                  \cup {[images |-> images, locality |-> formLocality]}
    /\ UNCHANGED <<publishOpen, formLocality, images, selectedProvince,
                   selectedLocality, formFrame>>

\* createProduct resolved: the form is reset, the modal closed, and
\* handlePublishSuccess bumps refreshTrigger, which starts one loadProducts.
CreateOk ==
    /\ createPending # <<>>
    /\ createPending' = <<>>
    /\ formLocality' = NoPlace /\ images' = 0
    /\ publishOpen' = FALSE
    /\ selectedProvince' = NoPlace /\ selectedLocality' = NoPlace
    /\ pubLoading' = FALSE
    /\ StartLoads(<<Closure(searchTerm, locationFilter, sellerIdFilter,
                            filters, page)>>)
    /\ UNCHANGED <<pubError, createSent, nForm, appVars, headerVars, products,
                   total, error, filters, localPrice, topFeatured, page,
                   sessionVars, storeVars, nEvents, viewCalls, searchCalls,
                   lastSubmit, featVars, suggVars>>

\* createProduct rejected: catch, then finally.
CreateFail ==
    /\ createPending # <<>>
    /\ createPending' = <<>>
    /\ pubError' = ErrCreate
    /\ pubLoading' = FALSE
    /\ UNCHANGED <<publishOpen, formLocality, images, createSent, nForm,
                   selectedProvince, selectedLocality, formFrame>>

InitPublish ==
    /\ SearchedState
    /\ nEvents = 0
    /\ fpage = <<>> /\ fflags = {} /\ ftodo = <<>>

NextPublish ==
    \/ OpenPublish
    \/ ClosePublish
    \/ \E n \in 0..MaxImages : handleImageChange(n)
    \/ \E provinceId \in Provinces : handleProvinceChange(provinceId)
    \/ \E localityId \in Localities : handleLocalityChange(localityId)
    \/ handleSubmit
    \/ CreateOk
    \/ CreateFail

SpecPublish == InitPublish /\ [][NextPublish]_vars

\* ------------------------------------------------------------ SpecFeatured
\* The featured recalculation of one home-view page, its mutations applied
\* to the store's flags one after the other.

\* Search counts of a page of n items: the rotations of n..1 and of 1..n.
SearchOrders(n) ==
    {[i \in 1..n |-> ((i + k) % n) + 1] : k \in 0..(n - 1)}
    \cup {[i \in 1..n |-> n - ((i + k) % n)] : k \in 0..(n - 1)}

FeaturedPages ==
    UNION {{[i \in 1..n |-> [id |-> i, searches |-> order[i],
                             featured |-> i \in flagged]] :
             order \in SearchOrders(n), flagged \in SUBSET (1..n)} :
           n \in TopFeatured..MaxPageLen}

InitFeatured ==
    /\ MountedPage
    /\ fpage \in FeaturedPages
    /\ fflags = {fpage[i].id : i \in {j \in 1..Len(fpage) : fpage[j].featured}}
    /\ ftodo = FeaturedMutations(fpage)

\* The store answers the next updateFeatured call of the page.
FeaturedApply ==
    /\ ftodo # <<>>
    /\ fflags' = ApplyMutation(fflags, Head(ftodo))
    /\ ftodo' = Tail(ftodo)
    /\ UNCHANGED <<fpage, appVars, headerVars, gridVars, sessionVars,
                   storeVars, loads, histVars, suggVars, pubVars>>

NextFeatured == FeaturedApply

SpecFeatured == InitFeatured /\ [][NextFeatured]_vars

\* ------------------------------------------------------------------ claims

\* C1: a late response of an older listing query never overwrites what a
\* newer query's response has set. When the primary response of a run that
\* is not the most recently started one arrives after the most recent run's
\* response, and the two runs asked for different things, the rendered
\* items and total stay as they are.
C1_StaleResponseDiscarded ==
    [][\A l \in Slots :
          (/\ PrimaryOk(l)
           /\ l # latest.slot
           /\ latest.state = "ok"
           /\ PrimaryRequest(loads[l]) # latest.req)
          => (products' = products /\ total' = total)]_vars

\* C2: every listing query in flight, primary or re-fetch, carries
\* featured_only = true exactly when no filter dimension is active in it.
FeaturedOnlyIffNoDimension(req) == req.featured_only <=> ~DimensionActive(req)

C2_FeaturedOnlyDerived ==
    \A l \in Slots :
        /\ loads[l].pc = "primary"
           => FeaturedOnlyIffNoDimension(PrimaryRequest(loads[l]))
        /\ loads[l].pc = "refetch"
           => FeaturedOnlyIffNoDimension(RefetchRequest(loads[l]))

\* C3: for a home-view page of at least 6 items with distinct search counts,
\* once all mutations of the recalculation are applied, exactly 6 items of
\* the page are featured and every featured item has more searches than
\* every item that is not.
PageFeatured == {i \in 1..Len(fpage) : fpage[i].id \in fflags}

C3_TopSixFeatured ==
    (ftodo = <<>> /\ Len(fpage) >= 6)
    => /\ Cardinality(PageFeatured) = 6
       /\ \A i \in PageFeatured : \A j \in (1..Len(fpage)) \ PageFeatured :
              fpage[i].searches > fpage[j].searches

\* C3 witness: all mutations applied, one item was promoted and one demoted.
C3_Witness ==
    /\ ftodo = <<>>
    /\ \E i \in 1..Len(fpage) : ~fpage[i].featured /\ fpage[i].id \in fflags
    /\ \E i \in 1..Len(fpage) : fpage[i].featured /\ fpage[i].id \notin fflags

\* C4: the view-increment call is issued at most once for each listing id.
C4_ViewIssuedOnce == \A p \in Products : viewCalls[p] <= 1

\* C5: the search-increment call is issued at most once for each listing
\* id, and a home-view run issues none.
C5_SearchIssuedOnce ==
    /\ \A p \in Products : searchCalls[p] <= 1
    /\ \A l \in Slots : loads[l].pc = "searchInc" => loads[l].hasActive

\* C6: selecting a location or seller suggestion leaves App's free-text
\* term empty, and selecting the suggestion that was selected last leaves
\* App's term, location filter, seller-id filter and category as they are.
SuggestionInputs == {sub \in SubmitInputs : sub.type \in {TypeLocation, TypeSeller}}

C6_SuggestionClearsTerm ==
    [][\A sub \in SuggestionInputs :
          HandleSearchSubmit(sub)
          => /\ searchTerm' = ""
             /\ lastSubmit.sub = sub => UNCHANGED appVars]_vars

\* C6 witness: a location suggestion was selected twice in a row.
C6_Witness ==
    /\ lastSubmit.times = 2
    /\ lastSubmit.sub.type = TypeLocation
    /\ locationFilter = lastSubmit.sub.term
    /\ searchTerm = ""

\* C7: on a home-view run the page is rendered once the primary response
\* has arrived: with a featured mutation awaited and no primary query
\* outstanding, the loading indicator is cleared.
C7_RenderBeforeFeatured ==
    (/\ \E l \in Slots : loads[l].pc = "featured"
     /\ \A l \in Slots : loads[l].pc # "primary")
    => ~loading

\* C8: a failing featured mutation, search increment or view increment
\* leaves the error state unset and the fetched page displayed.
SideCallFails(l) ==
    \/ FeaturedThrow(l)
    \/ FeaturedReturn(l, FALSE)
    \/ \E failed \in FailingSets(loads[l].newIds) : SearchIncThrow(l, failed)
    \/ ViewIncThrow(l)

C8_SideFailuresSilent ==
    [][\A l \in Slots :
          (SideCallFails(l) /\ error = NoError)
          => (error' = NoError /\ products' = products)]_vars

\* C9: while a primary listing query is outstanding, loading is true.
C9_LoadingWhileOutstanding ==
    \A l \in Slots : loads[l].pc = "primary" => loading

\* C10: when the primary listing query of a run fails, the run ends with a
\* non-empty error message set and loading false.
C10_PrimaryFailureShown ==
    [][\A l \in Slots :
          PrimaryFail(l)
          => (error' # NoError /\ error' # "" /\ loading' = FALSE)]_vars

\* C10 witness: the most recently started run ended on a failed primary
\* query; its message is shown and the spinner is gone.
C10_Witness ==
    /\ latest.state = "failed"
    /\ loads[latest.slot].pc = "idle"
    /\ error = ErrListing
    /\ ~loading

\* C11: the re-fetch after the search increments asks for the same filter
\* request as the run's primary query.
C11_RefetchSameRequest ==
    \A l \in Slots :
        loads[l].pc = "refetch"
        => RefetchRequest(loads[l]) = PrimaryRequest(loads[l])

\* C12: one user action starts at most one primary listing query.
StartedBy(l) == loads[l].pc = "idle" /\ loads'[l].pc = "primary"

C12_OneQueryPerAction ==
    [][nEvents' # nEvents
       => Cardinality({l \in Slots : StartedBy(l)}) <= 1]_vars

DefaultSidebar(f) ==
    /\ f.condition = "" /\ f.location = ""
    /\ f.priceMin = "" /\ f.priceMax = "" /\ f.endsIn = ""

C14_NewTermDefaultFilters ==
    [][searchTerm' # searchTerm
       => \A l \in Slots :
             (StartedBy(l) /\ loads'[l].searchTerm = searchTerm')
             => (DefaultSidebar(loads'[l].filters) /\ loads'[l].page = 1)]_vars

\* C15: App's free-text term is empty whenever the location-suggestion
\* filter or the seller-id filter is set, and no outstanding primary query
\* has a search parameter together with a suggestion location or seller id.
C15_TermExcludesSuggestion ==
    /\ (Truthy(locationFilter) \/ SellerSet(sellerIdFilter)) => searchTerm = ""
    /\ \A l \in Slots :
          (loads[l].pc = "primary" /\ PrimaryRequest(loads[l]).search # "")
          => /\ ~Truthy(loads[l].locationFilter)
             /\ PrimaryRequest(loads[l]).seller_id = NullSeller

\* C15 witness: a location suggestion was selected after a free-text search
\* and its primary query is outstanding.
C15_Witness ==
    /\ Len(recentSearches) = 2
    /\ recentSearches[2] = "bici"
    /\ lastSubmit.sub.type = TypeLocation
    /\ locationFilter = lastSubmit.sub.term
    /\ \E l \in Slots :
          loads[l].pc = "primary" /\ loads[l].locationFilter = locationFilter

\* C16: selecting a seller suggestion sets the seller-id filter, and the
\* query it starts carries that seller_id with featured_only = false.
SellerInputs == {sub \in SubmitInputs : sub.type = TypeSeller}

C16_SellerSuggestionFilters ==
    [][\A sub \in SellerInputs :
          HandleSearchSubmit(sub)
          => /\ sellerIdFilter' # NullSeller
             /\ \A l \in Slots :
                   StartedBy(l)
                   => /\ PrimaryRequest(loads'[l]).seller_id = sellerIdFilter'
                      /\ ~PrimaryRequest(loads'[l]).featured_only]_vars

\* C17: a run issues search increments only for ids whose increment has not
\* succeeded before in the session.
C17_SucceededNotReissued ==
    [][\A l \in Slots :
          (loads[l].pc # "searchInc" /\ loads'[l].pc = "searchInc")
          => \A p \in loads'[l].newIds : storeSearches[p] = 0]_vars

\* C18: every query sent to the suggestion service has at least 2
\* characters and is not made of whitespace only.
IsBlank(s) == s \in {"", " ", "  "}

C18_OnlyRealQueriesSent ==
    \A q \in sgSent : Len(q) >= 2 /\ ~IsBlank(q)

\* C19: the "did you mean" row is shown only if the correction differs
\* from the current term without regard to case, and from the text of
\* every returned suggestion without regard to case.
C19_DidYouMeanDiffers ==
    DidYouMeanShown
    => /\ Lower(liveSuggestion) # Lower(hSearchTerm)
       /\ \A i \in 1..Len(suggestions) :
             Lower(suggestions[i].text) # Lower(liveSuggestion)

\* C20: when the fetch for the current term fails and no other fetch is
\* outstanding, the panel shows neither suggestions nor a correction.
C20_FailureShowsNothing ==
    [][\A i \in 1..Len(sgPending) :
          (/\ SuggestionsFail(i)
           /\ sgPending[i].query = hSearchTerm
           /\ Len(sgPending) = 1)
          => (~SuggestionsListed' /\ ~DidYouMeanShown')]_vars

\* C21: the recent-searches list holds at most 5 terms, none of them twice,
\* the term submitted last comes first, and localStorage holds the same list.
C21_RecentSearchesList ==
    /\ Len(recentSearches) <= 5
    /\ \A i, j \in 1..Len(recentSearches) :
          i # j => recentSearches[i] # recentSearches[j]
    /\ lastSubmit.times > 0 => recentSearches[1] = lastSubmit.sub.term
    /\ lsRecentSearches = recentSearches

\* C21 witness: a full list took a new term in front and lost its last.
C21_Witness ==
    /\ nEvents > 0
    /\ Len(recentSearches) = 5
    /\ recentSearches[1] = "lampara"
    /\ recentSearches[2] = "mesa"
    /\ \A i \in 1..5 : recentSearches[i] # "radio"

\* C25: no step removes an id from the session's viewed or searched set.
C25_SessionSetsGrow ==
    [][/\ viewedProducts \subseteq viewedProducts'
       /\ searchedProducts \subseteq searchedProducts']_vars

\* C26: with a store that answers a featured_only query with flagged
\* listings only, no run has a featured = true mutation to make, and no
\* step adds a listing to the store's featured set.
C26_NeverPromotes ==
    /\ \A l \in Slots :
          loads[l].pc = "featured"
          => \A i \in 1..Len(loads[l].todo) : ~loads[l].todo[i].value
    /\ storeFeatured \subseteq InitiallyFeatured

\* C26 witness: two home-view runs have recalculated, one demotion was
\* applied and another run still awaits its own.
C26_Witness ==
    /\ storeFeatured # InitiallyFeatured
    /\ \E l \in Slots : loads[l].pc = "featured" /\ loads[l].todo # <<>>

\* C27: App shows the banner exactly when the grid has no active filter.
BannerShown ==
    /\ ~Truthy(searchTerm) /\ ~Truthy(selectedCategory)
    /\ ~Truthy(locationFilter) /\ sellerIdFilter = NullSeller

NoLoadInFlight == \A l \in Slots : loads[l].pc = "idle"

C30_LoadsFinishCleared ==
    /\ [](NoLoadInFlight => ~loading)
    /\ []<>NoLoadInFlight

\* C30 witness: after two user events every run has ended, one of them in
\* catch, and the indicator is cleared.
C30_Witness ==
    /\ NoLoadInFlight
    /\ nEvents = MaxEvents
    /\ error # NoError
    /\ ~loading

\* C22: typing in a price input changes nothing but the staged value, and
\* only to a digit-only string; the filter's prices change only with
\* "Aplicar", which commits the staged min and max together, or with a
\* reset of the filters (the clear button, a new search term).
PriceTyped ==
    \E k \in PriceKeys, v \in PriceInputs : HandleLocalPriceChange(k, v)

FilterPricesChange ==
    filters'.priceMin # filters.priceMin \/ filters'.priceMax # filters.priceMax

C22_PriceStagedThenApplied ==
    [][/\ PriceTyped
          => /\ UNCHANGED <<filters, loads, page>>
             /\ DigitsOnly(localPrice'.min) /\ DigitsOnly(localPrice'.max)
       /\ HandleApplyPrice
          => /\ filters'.priceMin = localPrice.min
             /\ filters'.priceMax = localPrice.max
       /\ FilterPricesChange
          => \/ HandleApplyPrice
             \/ (filters'.priceMin = "" /\ filters'.priceMax = "")]_vars

\* C22 witness: a min staged earlier and a max typed now were committed
\* together and are in the query of the run that was started.
C22_Witness ==
    /\ nEvents = 2
    /\ filters.priceMin = "10" /\ filters.priceMax = "10"
    /\ \E l \in Slots :
          /\ loads[l].pc = "primary"
          /\ PrimaryRequest(loads[l]).priceMin = "10"
          /\ PrimaryRequest(loads[l]).priceMax = "10"

\* C24: a handler that changes the effective filter starts its queries
\* for page 1.
EffectiveFilter == <<searchTerm, locationFilter, sellerIdFilter, filters>>

C24_FilterChangeFirstPage ==
    [][EffectiveFilter' # EffectiveFilter
       => \A l \in Slots : StartedBy(l) => loads'[l].page = 1]_vars

\* C28: a response to a suggestion request for a term that is no longer in
\* the search box leaves the suggestions as they are, and after no step are
\* suggestions listed under a term of fewer than 2 characters.
StaleSuggestionResponse ==
    \E i \in 1..Len(sgPending), resp \in ServiceResponses :
        SuggestionsOk(i, resp) /\ sgPending[i].query # hSearchTerm

C28_SuggestionsOfCurrentTerm ==
    [][/\ StaleSuggestionResponse => suggestions' = suggestions
       /\ Len(hSearchTerm') < 2 => ~SuggestionsListed']_vars

\* C23: submitting the publish form with no image selected sends no
\* create-listing request, sets the validation error and leaves the form not
\* loading; every create-listing request sent carries at least one image.
SubmitWithoutImage == handleSubmit /\ images = 0

C23_NoImageNoRequest ==
    [][/\ SubmitWithoutImage
          => /\ createPending' = createPending
             /\ createSent' = createSent
             /\ pubError' = ErrNoImage
             /\ ~pubLoading'
       /\ \A req \in createSent' : req.images >= 1]_vars

\* C23 witness: after a request that carried an image was rejected the user
\* removed the files and submitted again; the form shows the validation
\* error, is not loading, and no second request went out.
C23_Witness ==
    /\ pubError = ErrNoImage /\ ~pubLoading
    /\ images = 0 /\ createPending = <<>>
    /\ Cardinality(createSent) = 1

\* C29: while the publish form is shown with a province selected, the
\* locality id the form holds (the one a submission sends) is a locality of
\* that province.
C29_LocalityOfSelectedProvince ==
    (publishOpen /\ selectedProvince # NoPlace /\ formLocality # NoPlace)
        => ProvinceOf(formLocality) = selectedProvince

====
